---- MODULE Spec2Model ----
(***************************************************************************)
(* Model of lab_5_scrapper/scrapper.py: Config validation, the            *)
(* Crawler.find_articles pagination loop, HTMLParser.parse and main.       *)
(*                                                                         *)
(* Python values of the raw configuration are records [t, n]: t is the     *)
(* Python type and n the integer value (a bool is 0/1, as in Python where  *)
(* bool is a subclass of int).  A URL is a record [host, path]; a href is  *)
(* the same with host "" when it is relative.                              *)
(***************************************************************************)
EXTENDS Integers, Sequences, FiniteSets, TLC

\* ---------------------------------------------------------------- bounds
\* pages of the listing site that carry cards (pages after it are empty)
NumPages == 2
\* cards on one listing page, at most
MaxCards == 2
\* largest total_articles_to_find_and_parse of the small valid configurations
MaxTarget == 3
\* listing pages requested after the last page of the site before the
\* counter is no longer followed
ExtraPages == 1

MaxPage == NumPages + ExtraPages

\* ------------------------------------------------------ program constants
\* core_utils.constants, imported at scrapper.py:18-20
NUM_ARTICLES_UPPER_LIMIT == 150
TIMEOUT_LOWER_LIMIT == 1
TIMEOUT_UPPER_LIMIT == 59

VARIABLES
    config,         \* the parsed JSON of the configuration file
    site,           \* the listing site: page number -> sequence of card hrefs
    pc,             \* position of main
    error,          \* the exception that ended main, "none" otherwise
    number,         \* find_articles: page counter
    article_items,  \* find_articles: accumulator of verified URLs
    news,           \* find_articles: the cards of the page being scanned
    k,              \* find_articles: position of the for loop in news
    urls,           \* Crawler.urls
    i,              \* main: enumerate index (start=1)
    soup,           \* HTMLParser.parse: the article page last fetched
    article,        \* HTMLParser.article of the parser last created
    raw_store,      \* articles handed to to_raw, in call order
    meta_store,     \* articles handed to to_meta, in call order
    requested,      \* every URL make_request was called with
    discovered      \* <<page, position>> of every verified card, in order

vars == <<config, site, pc, error, number, article_items, news, k, urls, i,
          soup, article, raw_store, meta_store, requested, discovered>>

Min(a, b) == IF a < b THEN a ELSE b

\* ------------------------------------------------------------ Python values
PyInt(n) == [t |-> "int", n |-> n]
PyBool(b) == [t |-> "bool", n |-> IF b THEN 1 ELSE 0]
PyStr == [t |-> "str", n |-> 0]
PyDict == [t |-> "dict", n |-> 0]
PyList(s) == [t |-> "list", items |-> s]

\* isinstance(x, int): True for bool as well
IsInstanceInt(x) == x.t \in {"int", "bool"}
IsInstanceBool(x) == x.t = "bool"
IsInstanceStr(x) == x.t = "str"
IsInstanceDict(x) == x.t = "dict"
IsInstanceList(x) == x.t = "list"

\* a seed URL string "<scheme>://<host><path>", or a non-string element
UrlStr(scheme, path) == [t |-> "str", scheme |-> scheme, host |-> "site", path |-> path]
NotAStr == [t |-> "int", scheme |-> "", host |-> "", path |-> ""]

\* re.match(r'https?://.*/', url): http or https, then "://", then a "/" later on
ReMatchSeed(url) == url.scheme \in {"http", "https"} /\ url.path # ""

\* ------------------------------------------------------- raw configurations
GoodSeed == UrlStr("https", "/news/")
SeedChoices ==
    { [t |-> "str", items |-> <<>>],
      PyList(<<>>),
      PyList(<<GoodSeed>>),
      PyList(<<UrlStr("http", "/")>>),
      PyList(<<GoodSeed, UrlStr("https", "")>>),
      PyList(<<UrlStr("ftp", "/news/")>>),
      PyList(<<NotAStr>>) }
TotalChoices ==
    {PyStr, PyBool(TRUE), PyInt(0), PyInt(NUM_ARTICLES_UPPER_LIMIT),
     PyInt(NUM_ARTICLES_UPPER_LIMIT + 1)} \cup {PyInt(n) : n \in 1..MaxTarget}
HeadersChoices == {PyDict, PyStr}
EncodingChoices == {PyStr, PyInt(0)}
TimeoutChoices ==
    {PyStr, PyBool(TRUE), PyBool(FALSE), PyInt(TIMEOUT_LOWER_LIMIT - 1),
     PyInt(TIMEOUT_UPPER_LIMIT), PyInt(TIMEOUT_UPPER_LIMIT + 1)}
VerifyChoices == {PyBool(TRUE), PyInt(1)}
HeadlessChoices == {PyBool(FALSE), PyStr}

\* the JSON documents the configuration file may hold
RawConfigs ==
    [seed_urls : SeedChoices, total_articles : TotalChoices,
     headers : HeadersChoices, encoding : EncodingChoices,
     timeout : TimeoutChoices, should_verify_certificate : VerifyChoices,
     headless_mode : HeadlessChoices]

\* --------------------------------------------------------------- Config
\* ValidateConfigContent with the timeout checked before the headers
ValidateConfigContentReordered(c) ==
    IF ~IsInstanceList(c.seed_urls)
    THEN "IncorrectSeedURLError"
    ELSE IF \E j \in 1..Len(c.seed_urls.items) :
                \/ ~IsInstanceStr(c.seed_urls.items[j])
                \/ ~ReMatchSeed(c.seed_urls.items[j])
    THEN "IncorrectSeedURLError"
    ELSE IF \/ ~IsInstanceInt(c.total_articles)
            \/ IsInstanceBool(c.total_articles)
            \/ c.total_articles.n < 1
    THEN "IncorrectNumberOfArticlesError"
    ELSE IF c.total_articles.n > NUM_ARTICLES_UPPER_LIMIT
    THEN "NumberOfArticlesOutOfRangeError"
    ELSE IF \/ ~IsInstanceInt(c.timeout)
            \/ c.timeout.n < TIMEOUT_LOWER_LIMIT
            \/ c.timeout.n > TIMEOUT_UPPER_LIMIT
    THEN "IncorrectTimeoutError"
    ELSE IF ~IsInstanceDict(c.headers)
    THEN "IncorrectHeadersError"
    ELSE IF ~IsInstanceStr(c.encoding)
    THEN "IncorrectEncodingError"
    ELSE IF \/ ~IsInstanceBool(c.should_verify_certificate)
            \/ ~IsInstanceBool(c.headless_mode)
    THEN "IncorrectVerifyError"
    ELSE "none"

\* Config._validate_config_content: the exception raised, "none" when it returns
ValidateConfigContent(c) ==
    IF ~IsInstanceList(c.seed_urls)
    THEN "IncorrectSeedURLError"
    ELSE IF \E j \in 1..Len(c.seed_urls.items) :
                \/ ~IsInstanceStr(c.seed_urls.items[j])
                \/ ~ReMatchSeed(c.seed_urls.items[j])
    THEN "IncorrectSeedURLError"
    ELSE IF \/ ~IsInstanceInt(c.total_articles)
            \/ IsInstanceBool(c.total_articles)
            \/ c.total_articles.n < 1
    THEN "IncorrectNumberOfArticlesError"
    ELSE IF c.total_articles.n > NUM_ARTICLES_UPPER_LIMIT
    THEN "NumberOfArticlesOutOfRangeError"
    ELSE IF ~IsInstanceDict(c.headers)
    THEN "IncorrectHeadersError"
    ELSE IF ~IsInstanceStr(c.encoding)
    THEN "IncorrectEncodingError"
    ELSE IF \/ ~IsInstanceInt(c.timeout)
            \/ c.timeout.n < TIMEOUT_LOWER_LIMIT
            \/ c.timeout.n > TIMEOUT_UPPER_LIMIT
    THEN "IncorrectTimeoutError"
    ELSE IF \/ ~IsInstanceBool(c.should_verify_certificate)
            \/ ~IsInstanceBool(c.headless_mode)
    THEN "IncorrectVerifyError"
    ELSE "none"

\* Config.get_seed_urls, Config.get_num_articles: the values of the JSON, verbatim
get_seed_urls == config.seed_urls.items
get_num_articles == config.total_articles.n

\* ------------------------------------------------------------------ URLs
\* urllib.parse.urljoin(base, href): an absolute href replaces the base, a
\* relative one keeps the base's host
UrlJoin(base, href) ==
    IF href.host # "" THEN href ELSE [host |-> base.host, path |-> href.path]

\* urljoin(seed_url, '?type=article&PAGEN_1=' + str(number)); path <<0, n>> is
\* the query of listing page n
ListingUrl(seed_url, n) == UrlJoin(seed_url, [host |-> "", path |-> <<0, n>>])

\* Crawler._extract_url: the href resolved against the first seed URL
ExtractUrl(href) == UrlJoin(get_seed_urls[1], href)

\* ----------------------------------------------------------- the web site
\* the card at position j of listing page p: odd positions link relatively,
\* even ones absolutely to another host
Href(p, j) == [host |-> IF j % 2 = 0 THEN "other" ELSE "", path |-> <<p, j>>]
Sites ==
    { [p \in 1..NumPages |-> [j \in 1..cnt[p] |-> Href(p, j)]] :
        cnt \in [1..NumPages -> 0..MaxCards] }
\* soup.find_all('a', {'class': 'card', 'href': True}) on listing page n; a
\* page after the last one of the site has no cards
FindAllCards(n) == IF n \in DOMAIN site THEN site[n] ELSE <<>>

\* article pages a fetch can return: the elements the parser looks for
GoodDate == "2023-05-01T12:00:00+03:00"
ArticlePages ==
    { [title |-> TRUE, author |-> TRUE, date |-> GoodDate],
      [title |-> FALSE, author |-> FALSE, date |-> GoodDate],
      [title |-> TRUE, author |-> TRUE, date |-> "absent"],
      [title |-> TRUE, author |-> FALSE, date |-> "2023-05-01"] }

NoSoup == [title |-> FALSE, author |-> FALSE, date |-> "unfetched"]
NoUrl == [host |-> "", path |-> <<>>]
\* Article(url, article_id) as constructed: no title, no author, no date
NewArticle(url, id) ==
    [id |-> id, url |-> url, title |-> "", author |-> <<>>, date |-> <<>>]
NoArticle == NewArticle(NoUrl, 0)

Init ==
    /\ config \in RawConfigs
    /\ site \in Sites
    /\ pc = "main"
    /\ error = "none"
    /\ number = 1
    /\ article_items = <<>>
    /\ news = <<>>
    /\ k = 1
    /\ urls = <<>>
    /\ i = 1
    /\ soup = NoSoup
    /\ article = NoArticle
    /\ raw_store = <<>>
    /\ meta_store = <<>>
    /\ requested = {}
    /\ discovered = <<>>

\* MainConfig going on to the crawl after a failed validation
MainConfigSwallowsError ==
    /\ pc = "main"
    /\ pc' = "find_articles"
    /\ error' = ValidateConfigContent(config)
    /\ urls' = <<>>
    /\ UNCHANGED <<config, site, number, article_items, news, k, i, soup,
                   article, raw_store, meta_store, requested, discovered>>

\* main, line 318: Config(CRAWLER_CONFIG_PATH) validates, then exposes the fields;
\* lines 319-320: prepare_environment and Crawler(config), urls = []
MainConfig ==
    /\ pc = "main"
    /\ LET e == ValidateConfigContent(config) IN
         IF e # "none"
         THEN /\ pc' = "raised"
              /\ error' = e
         ELSE /\ pc' = "find_articles"
              /\ error' = "none"
    /\ urls' = <<>>
    /\ UNCHANGED <<config, site, number, article_items, news, k, i, soup,
                   article, raw_store, meta_store, requested, discovered>>

\* Crawler.find_articles, lines 213-215
FindArticlesBegin ==
    /\ pc = "find_articles"
    /\ IF get_seed_urls = <<>>
       THEN /\ pc' = "raised"
            /\ error' = "IndexError"
       ELSE /\ pc' = "while"
            /\ error' = "none"
    /\ article_items' = <<>>
    /\ number' = 1
    /\ UNCHANGED <<config, site, news, k, urls, i, soup, article, raw_store,
                   meta_store, requested, discovered>>

\* WhileTest extending urls with the whole accumulator, not its first
\* total_articles entries
WhileTestNoSlice ==
    /\ pc = "while"
    /\ IF Len(article_items) < get_num_articles
       THEN /\ pc' = "request"
            /\ UNCHANGED <<urls, i>>
       ELSE /\ urls' = urls \o article_items
            /\ i' = 1
            /\ pc' = "parse"
    /\ UNCHANGED <<config, site, error, number, article_items, news, k, soup,
                   article, raw_store, meta_store, requested, discovered>>

\* line 216, the loop test, and line 234 when it fails
WhileTest ==
    /\ pc = "while"
    /\ IF Len(article_items) < get_num_articles
       THEN /\ pc' = "request"
            /\ UNCHANGED <<urls, i>>
       ELSE /\ urls' = urls \o SubSeq(article_items, 1,
                                      Min(get_num_articles, Len(article_items)))
            /\ i' = 1
            /\ pc' = "parse"
    /\ UNCHANGED <<config, site, error, number, article_items, news, k, soup,
                   article, raw_store, meta_store, requested, discovered>>

\* ListingFail going on to the next page
ListingFailAdvances ==
    /\ pc = "request"
    /\ number <= MaxPage
    /\ requested' = requested \cup {ListingUrl(get_seed_urls[1], number)}
    /\ number' = number + 1
    /\ pc' = "while"
    /\ UNCHANGED <<config, site, error, article_items, news, k, urls,
                   i, soup, article, raw_store, meta_store, discovered>>

\* lines 217-222: the listing page answers with an HTTP error status
ListingFail ==
    /\ pc = "request"
    /\ requested' = requested \cup {ListingUrl(get_seed_urls[1], number)}
    /\ pc' = "while"
    /\ UNCHANGED <<config, site, error, number, article_items, news, k, urls,
                   i, soup, article, raw_store, meta_store, discovered>>

\* lines 217-224: the listing page is fetched and its cards are found
ListingOk ==
    /\ pc = "request"
    /\ number <= MaxPage
    /\ requested' = requested \cup {ListingUrl(get_seed_urls[1], number)}
    /\ news' = FindAllCards(number)
    /\ k' = 1
    /\ pc' = "for"
    /\ UNCHANGED <<config, site, error, number, article_items, urls, i, soup,
                   article, raw_store, meta_store, discovered>>

\* VerifyOk inserting the URL at the front of the accumulator
VerifyOkPrepend ==
    /\ pc = "for"
    /\ k <= Len(news)
    /\ LET article_url == ExtractUrl(news[k]) IN
         /\ requested' = requested \cup {article_url}
         /\ article_items' = <<article_url>> \o article_items
    /\ discovered' = Append(discovered, <<number, k>>)
    /\ k' = k + 1
    /\ UNCHANGED <<config, site, pc, error, number, news, urls, i, soup,
                   article, raw_store, meta_store>>

\* lines 225-232: the candidate's page answers, the URL is appended
VerifyOk ==
    /\ pc = "for"
    /\ k <= Len(news)
    /\ LET article_url == ExtractUrl(news[k]) IN
         /\ requested' = requested \cup {article_url}
         /\ article_items' = Append(article_items, article_url)
    /\ discovered' = Append(discovered, <<number, k>>)
    /\ k' = k + 1
    /\ UNCHANGED <<config, site, pc, error, number, news, urls, i, soup,
                   article, raw_store, meta_store>>

\* lines 225-231: the candidate's page answers with an HTTP error status
VerifyFail ==
    /\ pc = "for"
    /\ k <= Len(news)
    /\ requested' = requested \cup {ExtractUrl(news[k])}
    /\ k' = k + 1
    /\ UNCHANGED <<config, site, pc, error, number, article_items, news, urls,
                   i, soup, article, raw_store, meta_store, discovered>>

\* line 233, after the last card of the page
ForEnd ==
    /\ pc = "for"
    /\ k > Len(news)
    /\ number' = number + 1
    /\ pc' = "while"
    /\ UNCHANGED <<config, site, error, article_items, news, k, urls, i, soup,
                   article, raw_store, meta_store, requested, discovered>>

\* make_request, line 185: requests.get raises an exception that is no
\* HTTPError (a timeout, a refused connection); nothing catches it
NetworkError ==
    /\ \/ pc = "request"
       \/ pc = "for" /\ k <= Len(news)
       \/ pc = "parse" /\ i <= Len(urls)
    /\ requested' = requested \cup
         { CASE pc = "request" -> ListingUrl(get_seed_urls[1], number)
             [] pc = "for" -> ExtractUrl(news[k])
             [] OTHER -> urls[i] }
    /\ pc' = "raised"
    /\ error' = "ConnectionError"
    /\ UNCHANGED <<config, site, number, article_items, news, k, urls, i, soup,
                   article, raw_store, meta_store, discovered>>

\* ------------------------------------------------------------ HTMLParser
\* HTMLParser.unify_date_format: strptime with '%Y-%m-%dT%H:%M:%S+03:00', the
\* fields of the datetime, <<>> when strptime raises ValueError
UnifyDateFormat(date_str) ==
    IF date_str = GoodDate THEN <<2023, 5, 1, 12, 0, 0>> ELSE <<>>

\* line 277, date.text with date = None: the failure of a page without a date
MissingDateField == "AttributeError"
\* line 290, strptime on a text of another format
DateFormatInvalid == "ValueError"

\* FillArticleWithMetaInformation treating the date as the other optional
\* elements: a page without it leaves the article's date unset
FillArticleOptionalDate(a, page) ==
    LET a1 == IF page.title THEN [a EXCEPT !.title = "title"] ELSE a
        a2 == IF page.author THEN [a1 EXCEPT !.author = <<"author">>]
              ELSE [a1 EXCEPT !.author = <<"NOT FOUND">>]
    IN  IF page.date = "absent"
        THEN [article |-> a2, error |-> "none"]
        ELSE IF UnifyDateFormat(page.date) = <<>>
        THEN [article |-> a2, error |-> DateFormatInvalid]
        ELSE [article |-> [a2 EXCEPT !.date = UnifyDateFormat(page.date)],
              error |-> "none"]

\* HTMLParser._fill_article_with_meta_information up to line 277: the article
\* as it stands when the method returns or raises, and the exception
FillArticleWithMetaInformation(a, page) ==
    LET a1 == IF page.title THEN [a EXCEPT !.title = "title"] ELSE a
        a2 == IF page.author THEN [a1 EXCEPT !.author = <<"author">>]
              ELSE [a1 EXCEPT !.author = <<"NOT FOUND">>]
    IN  IF page.date = "absent"
        THEN [article |-> a2, error |-> MissingDateField]
        ELSE IF UnifyDateFormat(page.date) = <<>>
        THEN [article |-> a2, error |-> DateFormatInvalid]
        ELSE [article |-> [a2 EXCEPT !.date = UnifyDateFormat(page.date)],
              error |-> "none"]

\* ParseArticle with enumerate counting from 0
ParseArticleFromZero ==
    /\ pc = "parse"
    /\ i <= Len(urls)
    /\ \E page \in ArticlePages :
         LET r == FillArticleWithMetaInformation(NewArticle(urls[i], i - 1), page) IN
           /\ soup' = page
           /\ article' = r.article
           /\ IF r.error # "none"
              THEN /\ pc' = "raised"
                   /\ error' = r.error
                   /\ UNCHANGED <<raw_store, meta_store, i>>
              ELSE /\ raw_store' = Append(raw_store, r.article)
                   /\ meta_store' = Append(meta_store, r.article)
                   /\ i' = i + 1
                   /\ UNCHANGED <<pc, error>>
    /\ requested' = requested \cup {urls[i]}
    /\ UNCHANGED <<config, site, number, article_items, news, k, urls,
                   discovered>>

\* main, lines 322-327: one iteration of the loop over crawler.urls:
\* HTMLParser(url, i, config).parse(), then to_raw and to_meta
ParseArticle ==
    /\ pc = "parse"
    /\ i <= Len(urls)
    /\ \E page \in ArticlePages :
         LET r == FillArticleWithMetaInformation(NewArticle(urls[i], i), page) IN
           /\ soup' = page
           /\ article' = r.article
           /\ IF r.error # "none"
              THEN /\ pc' = "raised"
                   /\ error' = r.error
                   /\ UNCHANGED <<raw_store, meta_store, i>>
              ELSE /\ raw_store' = Append(raw_store, r.article)
                   /\ meta_store' = Append(meta_store, r.article)
                   /\ i' = i + 1
                   /\ UNCHANGED <<pc, error>>
    /\ requested' = requested \cup {urls[i]}
    /\ UNCHANGED <<config, site, number, article_items, news, k, urls,
                   discovered>>

\* main returns after the last URL
MainDone ==
    /\ pc = "parse"
    /\ i > Len(urls)
    /\ pc' = "done"
    /\ UNCHANGED <<config, site, error, number, article_items, news, k, urls,
                   i, soup, article, raw_store, meta_store, requested,
                   discovered>>

Next ==
    \/ MainConfig
    \/ FindArticlesBegin
    \/ WhileTest
    \/ ListingFail
    \/ ListingOk
    \/ VerifyOk
    \/ VerifyFail
    \/ ForEnd
    \/ NetworkError
    \/ ParseArticle
    \/ MainDone

Spec == Init /\ [][Next]_vars

\* lines 217-233 for a page after MaxPage: the page is fetched and has no
\* cards, the for loop has nothing to scan, and the loop test comes next. Every
\* page after the last one of the site is the same empty page, so the counter
\* is not followed past MaxPage + 1
ListingPastMaxPage ==
    /\ pc = "request"
    /\ number > MaxPage
    /\ requested' = requested \cup {ListingUrl(get_seed_urls[1], number)}
    /\ news' = FindAllCards(number)
    /\ k' = 1
    /\ pc' = "while"
    /\ UNCHANGED <<config, site, error, number, article_items, urls, i, soup,
                   article, raw_store, meta_store, discovered>>

\* the run in which every request is answered and every listing page is
\* fetched successfully (candidate pages may still answer with an error status)
ReliableNext ==
    \/ MainConfig
    \/ FindArticlesBegin
    \/ WhileTest
    \/ ListingOk
    \/ ListingPastMaxPage
    \/ VerifyOk
    \/ VerifyFail
    \/ ForEnd
    \/ ParseArticle
    \/ MainDone

\* main is one sequential thread: while a step is possible, one is taken
ReliableSpec == Init /\ [][ReliableNext]_vars /\ WF_vars(ReliableNext)

\* ---------------------------------------------------------------- claims
\* the rules of the validation table, in its order, on the raw configuration
RuleViolated(r, c) ==
    CASE r = 1 -> \/ ~IsInstanceList(c.seed_urls)
                  \/ \E j \in 1..Len(c.seed_urls.items) :
                        \/ ~IsInstanceStr(c.seed_urls.items[j])
                        \/ ~ReMatchSeed(c.seed_urls.items[j])
      [] r = 2 -> \/ ~IsInstanceInt(c.total_articles)
                  \/ IsInstanceBool(c.total_articles)
                  \/ c.total_articles.n < 1
      [] r = 3 -> /\ IsInstanceInt(c.total_articles)
                  /\ c.total_articles.n > NUM_ARTICLES_UPPER_LIMIT
      [] r = 4 -> ~IsInstanceDict(c.headers)
      [] r = 5 -> ~IsInstanceStr(c.encoding)
      [] r = 6 -> \/ ~IsInstanceInt(c.timeout)
                  \/ c.timeout.n < TIMEOUT_LOWER_LIMIT
                  \/ c.timeout.n > TIMEOUT_UPPER_LIMIT
      [] OTHER -> \/ ~IsInstanceBool(c.should_verify_certificate)
                  \/ ~IsInstanceBool(c.headless_mode)
RuleKind ==
    <<"IncorrectSeedURLError", "IncorrectNumberOfArticlesError",
      "NumberOfArticlesOutOfRangeError", "IncorrectHeadersError",
      "IncorrectEncodingError", "IncorrectTimeoutError", "IncorrectVerifyError">>
FirstViolated(r, c) ==
    RuleViolated(r, c) /\ \A q \in 1..(r - 1) : ~RuleViolated(q, c)

\* find_articles has returned and main goes on
Returned == pc \in {"parse", "done"}
\* the URL of the card at <<page, position>>
CardUrl(d) == ExtractUrl(site[d[1]][d[2]])
\* <<page, position>> a before b in page-ascending, then document order
Before(a, b) == a[1] < b[1] \/ (a[1] = b[1] /\ a[2] < b[2])

\* C1: a completed find_articles on a fresh Crawler yields at most
\* total_articles URLs, and exactly that many whenever at least that many
\* reachable article links were found on the listing
C1_AtMostAndExactlyTarget ==
    Returned =>
        /\ Len(urls) <= get_num_articles
        /\ Len(discovered) >= get_num_articles => Len(urls) = get_num_articles
C1_Witness ==
    /\ Returned
    /\ Len(discovered) > get_num_articles
    /\ Len(urls) = get_num_articles
    /\ ListingUrl(get_seed_urls[1], 1) \in requested

\* C2: the verified candidates are accumulated in discovery order (pages in
\* strictly increasing number from 1, cards of a page in document order, each
\* page scanned once), and the result is the prefix of that order
C2_PrefixOfDiscoveryOrder ==
    /\ number >= 1
    /\ Len(article_items) = Len(discovered)
    /\ \A j \in 1..Len(discovered) :
         /\ article_items[j] = CardUrl(discovered[j])
         /\ discovered[j][1] \in 1..number
         /\ discovered[j][1] = number =>
               pc \in {"for", "raised"} /\ discovered[j][2] < k
         /\ j > 1 => Before(discovered[j - 1], discovered[j])
    /\ Returned =>
         /\ Len(urls) <= Len(discovered)
         /\ \A j \in 1..Len(urls) : urls[j] = CardUrl(discovered[j])
C2_Witness ==
    /\ Returned
    /\ Len(urls) = 2
    /\ discovered[1] = <<1, 2>>
    /\ discovered[2] = <<2, 1>>
    /\ Len(discovered) = 3

\* C3: a configuration that violates rule r of the table and no rule before it
\* makes validation raise the exception of rule r, whatever the later fields hold
C3_FirstViolatedRuleReported ==
    pc # "main" =>
        \A r \in 1..7 :
            FirstViolated(r, config) => pc = "raised" /\ error = RuleKind[r]
C3_Witness ==
    /\ pc = "raised"
    /\ error = "IncorrectHeadersError"
    /\ RuleViolated(6, config)
    /\ RuleViolated(7, config)
    /\ ~RuleViolated(5, config)

\* C4: a configuration whose seed_urls is an empty list does not pass
\* validation: it is rejected with IncorrectSeedURLError
C4_EmptySeedUrlsRejected ==
    (pc # "main" /\ IsInstanceList(config.seed_urls) /\ get_seed_urls = <<>>)
        => pc = "raised" /\ error = "IncorrectSeedURLError"

\* C5: when the configuration violates a rule of the table, main issues no
\* network request at all
C5_NoRequestAfterInvalidConfig ==
    (\E r \in 1..7 : RuleViolated(r, config)) => requested = {}
C5_Witness ==
    /\ pc = "raised"
    /\ error = "IncorrectTimeoutError"
    /\ requested = {}

\* C6: parse on an article page without a date element raises the
\* missing-date failure; the article is neither returned nor stored
C6_MissingDateFails ==
    soup.date = "absent" =>
        /\ pc = "raised"
        /\ error = MissingDateField
        /\ article.date = <<>>
        /\ \A j \in 1..Len(raw_store) : raw_store[j].id # article.id
        /\ \A j \in 1..Len(meta_store) : meta_store[j].id # article.id
C6_Witness ==
    /\ soup.date = "absent"
    /\ article.id = 2
    /\ article.author = <<"author">>
    /\ Len(raw_store) = 1

\* C7: an extraction failure for one article does not end main: main never
\* stops on a missing or unparseable date
C7_ExtractionFailureDoesNotAbort ==
    ~(pc = "raised" /\ error \in {MissingDateField, DateFormatInvalid})

\* C8: when main ends normally, exactly total_articles records are stored,
\* to_raw and to_meta got the same records, the record at position j has id j
\* and the URL of the j-th discovered card; no stored record lacks its date
C8_StoredRecords ==
    /\ meta_store = raw_store
    /\ \A j \in 1..Len(raw_store) :
         /\ raw_store[j].id = j
         /\ raw_store[j].date # <<>>
         /\ raw_store[j].author # <<>>
         /\ raw_store[j].url = CardUrl(discovered[j])
    /\ pc = "done" => Len(raw_store) = get_num_articles
C8_Witness ==
    /\ pc = "done"
    /\ get_num_articles = 2
    /\ Len(discovered) = 3
    /\ Len(raw_store) = 2
    /\ raw_store[2].author = <<"NOT FOUND">>

\* C9: when every listing page is fetched successfully, find_articles
\* eventually returns (or main has stopped), with min(total_articles, number
\* of reachable links found) URLs
C9_EventuallyReturns ==
    <>(/\ pc \in {"parse", "done", "raised"}
       /\ Returned =>
            Len(urls) = Min(get_num_articles, Len(discovered)))

\* C10: a failed listing fetch leaves the page counter and the accumulator
\* as they are; the counter changes only at the end of the scan of a fetched
\* page, by exactly 1; a failed verification goes on to the next card and the
\* scan of a page always ends with the increment
C10_CounterAdvance ==
    [][ /\ (pc = "request" /\ pc' = "while") =>
              (number' = number /\ article_items' = article_items)
        /\ number' # number => (pc = "for" /\ number' = number + 1)
        /\ (pc = "for" /\ pc' = "while") => number' = number + 1
        /\ (pc = "for" /\ pc' = "for") => k' = k + 1 ]_vars
C10_Witness ==
    /\ pc = "while"
    /\ number = 2
    /\ Len(site[1]) = 2
    /\ article_items = <<>>
    /\ ListingUrl(get_seed_urls[1], 2) \in requested

====
